---- MODULE Spec2Model ----
(***************************************************************************)
(* Expense tracker (src/main.go): five HTTP handlers over one JSON file.   *)
(* Every handler reloads the whole file, mutates the slice in memory and   *)
(* rewrites the whole file with os.WriteFile.  Handlers run concurrently   *)
(* (net/http starts one goroutine per request) and take no lock.           *)
(***************************************************************************)
EXTENDS Integers, Sequences, FiniteSets, TLC

(* ------------------------------ bounds --------------------------------- *)
\* Go's int is 64 bits wide; the model keeps two's-complement wrap-around
\* in a narrower word so that TLC can reach the overflow.
IntBits == 4
\* The wall clock takes the values 0..MaxTime.
MaxTime == 1
\* Number of requests received in one behaviour.
MaxRequests == 4

TwoToBits == 2 ^ IntBits
MaxInt == (TwoToBits \div 2) - 1
MinInt == 0 - (TwoToBits \div 2)

\* x reduced to the int range, as Go's wrapping arithmetic does.
Wrap(x) == ((x - MinInt) % TwoToBits) + MinInt

\* Concurrent request goroutines.
Procs == {"h1", "h2"}

\* Request bodies: {description, amount}; a body may also carry an id,
\* which json.Decode stores into Expense.ID before the handler overwrites it.
Bodies ==
  { [id |-> 0, description |-> "coffee", amount |-> 1],
    [id |-> 1, description |-> "tea", amount |-> MaxInt] }

\* Ids named in /expenses/update/{id} and /expenses/delete/{id}.
PathIds == 1..MaxRequests

(* ------------------------------ values --------------------------------- *)
\* time.Time: wall-clock reading plus "has a monotonic reading" (set by
\* time.Now, dropped by the JSON encoding).
Time(wall, mono) == [wall |-> wall, mono |-> mono]
ZeroTime == Time(0, FALSE)

\* type Expense struct
Expense(id, d, a, c, u) ==
  [ID |-> id, Description |-> d, Amount |-> a, CreatedAt |-> c, UpdatedAt |-> u]

\* Bug variant: the two timestamp tags are exchanged.
MarshalExpense_swapped(e) ==
  [id |-> e.ID, description |-> e.Description, amount |-> e.Amount,
   created_at |-> e.UpdatedAt.wall, updated_at |-> e.CreatedAt.wall]

\* One JSON object of the document: the `json:"..."` field names, the
\* timestamps as RFC 3339 text (wall clock only).
MarshalExpense(e) ==
  [id |-> e.ID, description |-> e.Description, amount |-> e.Amount,
   created_at |-> e.CreatedAt.wall, updated_at |-> e.UpdatedAt.wall]

UnmarshalExpense(j) ==
  Expense(j.id, j.description, j.amount,
          Time(j.created_at, FALSE), Time(j.updated_at, FALSE))

\* Bug variant: the encoder emits the records last to first.
Marshal_reversed(expenses) ==
  [i \in 1..Len(expenses) |-> MarshalExpense(expenses[Len(expenses) + 1 - i])]

\* json.MarshalIndent / json.Encode of []Expense
Marshal(expenses) == [i \in 1..Len(expenses) |-> MarshalExpense(expenses[i])]
\* json.Unmarshal into []Expense
Unmarshal(doc) == [i \in 1..Len(doc) |-> UnmarshalExpense(doc[i])]

(* --------------------------- the file ---------------------------------- *)
\* expense.json is absent, zero bytes long (just truncated), a well-formed
\* JSON array, or bytes that do not parse (partly written, or two writes
\* laid over each other).
Absent == [kind |-> "absent", doc |-> <<>>]
Empty == [kind |-> "empty", doc |-> <<>>]
Corrupt == [kind |-> "corrupt", doc |-> <<>>]
Json(doc) == [kind |-> "json", doc |-> doc]

VARIABLES
  file,      \* content of expense.json
  now,       \* wall clock read by time.Now()
  stepped,   \* TRUE once the wall clock has been set back
  pc,        \* per handler: "idle", "stamp", "save", "write", "done"
  op,        \* per handler: the request being served
  pre,       \* per handler: content of the file when it was loaded
  work,      \* per handler: the local slice `expenses`
  resp,      \* per handler: the response written so far
  expense,   \* per handler: the local variable `expense` of addExpenseHandler
  saves,     \* per handler: calls of saveExpenses made by this request
  loads,     \* per handler: calls of loadExpenses made by this request
  lastSaver, \* the handler whose os.WriteFile completed last
  started,   \* number of requests received so far
  log,       \* the successful Creates and Deletes so far, with their ids
  origin     \* content of the file when the server started

vars ==
  <<file, now, stepped, pc, op, pre, work, expense, resp, saves, loads,
    lastSaver, started, log, origin>>

NoExpense == Expense(0, "", 0, ZeroTime, ZeroTime)
NoOp == [kind |-> "none", id |-> 0, description |-> "", amount |-> 0]
NoResp == [status |-> 0, expense |-> <<>>, expenses |-> <<>>, total |-> 0]
Status(s) == [NoResp EXCEPT !.status = s]

(* ------------------------ loadExpenses --------------------------------- *)
\* The outcomes of loadExpenses on file content f: os.Stat says "not
\* exist" -> empty slice; ReadFile may fail; Unmarshal fails on bytes that
\* are no JSON array.
\* Bug variant: without the os.IsNotExist branch a missing file is a read
\* error.
loadExpenses_strict(f) ==
  IF f.kind = "json"
  THEN {[err |-> FALSE, expenses |-> Unmarshal(f.doc)],
        [err |-> TRUE, expenses |-> <<>>]}
  ELSE {[err |-> TRUE, expenses |-> <<>>]}

loadExpenses(f) ==
  CASE f.kind = "absent" -> {[err |-> FALSE, expenses |-> <<>>]}
    [] f.kind = "json" -> {[err |-> FALSE, expenses |-> Unmarshal(f.doc)],
                           [err |-> TRUE, expenses |-> <<>>]}
    [] OTHER -> {[err |-> TRUE, expenses |-> <<>>]}

(* ------------------------ generateUniqueID ----------------------------- *)
RECURSIVE MaxIDLoop(_, _, _)
MaxIDLoop(expenses, i, maxID) ==
  IF i > Len(expenses) THEN maxID
  ELSE MaxIDLoop(expenses, i + 1,
                 IF expenses[i].ID > maxID THEN expenses[i].ID ELSE maxID)

\* Bug variant: the id is the number of records plus one.
generateUniqueID_count(expenses) == Wrap(Len(expenses) + 1)

generateUniqueID(expenses) == Wrap(MaxIDLoop(expenses, 1, 0) + 1)

(* ------------------------ saveExpenses --------------------------------- *)
\* What the file holds after a complete Write of `data` at offset 0 into
\* content `cur`.  os.WriteFile truncates on open, so `cur` is non-empty only
\* when another writer wrote after this writer's open: then the bytes of
\* `cur` beyond the end of `data` stay (whether there are any depends on the
\* byte lengths, which the model does not carry), and they do not parse.
Written(cur, data) ==
  IF cur.kind = "empty" \/ cur = data THEN {data} ELSE {data, Corrupt}

\* What the file holds after a Write that returned an error: nothing or
\* only a part of the data went out.
WriteFailed(cur) == {cur, Corrupt}

\* The response after a successful save, per handler.
Success(p) ==
  CASE op[p].kind = "add" ->
         [NoResp EXCEPT !.status = 201, !.expense = <<MarshalExpense(expense[p])>>]
    [] op[p].kind = "update" ->
         [NoResp EXCEPT !.status = 200, !.expenses = Marshal(work[p])]
    [] OTHER -> Status(204)

\* Bug variant: a save whose open failed is tried once more.
SaveOpen_retry(p) ==
  /\ pc[p] = "save"
  /\ saves' = [saves EXCEPT ![p] = @ + 1]
  /\ \/ /\ file' = Empty
        /\ pc' = [pc EXCEPT ![p] = "write"]
        /\ resp' = resp
     \/ /\ file' = file
        /\ IF saves[p] = 0
           THEN pc' = pc /\ resp' = resp
           ELSE /\ pc' = [pc EXCEPT ![p] = "done"]
                /\ resp' = [resp EXCEPT ![p] = Status(500)]
  /\ UNCHANGED <<now, stepped, op, pre, work, expense, loads, lastSaver, log,
               started, origin>>

\* saveExpenses, first half: os.WriteFile opens expense.json with
\* O_WRONLY|O_CREATE|O_TRUNC.  A failed open leaves the file alone.
SaveOpen(p) ==
  /\ pc[p] = "save"
  /\ saves' = [saves EXCEPT ![p] = @ + 1]
  /\ \/ /\ file' = Empty
        /\ pc' = [pc EXCEPT ![p] = "write"]
        /\ resp' = resp
     \/ /\ file' = file
        /\ pc' = [pc EXCEPT ![p] = "done"]
        /\ resp' = [resp EXCEPT ![p] = Status(500)]
  /\ UNCHANGED <<now, stepped, op, pre, work, expense, loads, lastSaver, log,
               started, origin>>

\* The log after handler p's save succeeded.
Logged(p) ==
  CASE op[p].kind = "add" -> Append(log, [kind |-> "add", id |-> expense[p].ID])
    [] op[p].kind = "delete" -> Append(log, [kind |-> "delete", id |-> op[p].id])
    [] OTHER -> log

\* saveExpenses, second half: the Write and the handler's response.
SaveWrite(p) ==
  /\ pc[p] = "write"
  /\ \/ /\ file' \in Written(file, Json(Marshal(work[p])))
        /\ resp' = [resp EXCEPT ![p] = Success(p)]
        /\ lastSaver' = p
        /\ log' = Logged(p)
     \/ /\ file' \in WriteFailed(file)
        /\ resp' = [resp EXCEPT ![p] = Status(500)]
        /\ UNCHANGED <<lastSaver, log>>
  /\ pc' = [pc EXCEPT ![p] = "done"]
  /\ UNCHANGED <<now, stepped, op, pre, work, expense, saves, loads, started,
               origin>>

(* ------------------------ addExpenseHandler ---------------------------- *)
\* Decode, load, generate the id, read the clock for CreatedAt.
AddLoad(p, body) ==
  /\ pc[p] = "idle"
  /\ started < MaxRequests
  /\ started' = started + 1
  /\ op' = [op EXCEPT ![p] = [kind |-> "add", id |-> 0,
                              description |-> body.description,
                              amount |-> body.amount]]
  /\ pre' = [pre EXCEPT ![p] = file]
  /\ loads' = [loads EXCEPT ![p] = @ + 1]
  /\ \E r \in loadExpenses(file) :
       IF r.err
       THEN /\ pc' = [pc EXCEPT ![p] = "done"]
            /\ resp' = [resp EXCEPT ![p] = Status(500)]
            /\ UNCHANGED <<work, expense>>
       ELSE /\ pc' = [pc EXCEPT ![p] = "stamp"]
            /\ work' = [work EXCEPT ![p] = r.expenses]
            /\ expense' = [expense EXCEPT ![p] =
                 Expense(generateUniqueID(r.expenses), body.description,
                         body.amount, Time(now, TRUE), ZeroTime)]
            /\ resp' = resp
  /\ UNCHANGED <<file, now, stepped, saves, lastSaver, log, origin>>

\* Read the clock again for UpdatedAt, append.
AddStamp(p) ==
  /\ pc[p] = "stamp"
  /\ LET e == [expense[p] EXCEPT !.UpdatedAt = Time(now, TRUE)]
     IN /\ expense' = [expense EXCEPT ![p] = e]
        /\ work' = [work EXCEPT ![p] = Append(@, e)]
  /\ pc' = [pc EXCEPT ![p] = "save"]
  /\ UNCHANGED <<file, now, stepped, op, pre, resp, saves, loads, lastSaver, log,
               started, origin>>

(* ------------------------ linear scan ---------------------------------- *)
\* Index of the first element whose ID is id, 0 when there is none
\* (the `for i, expense := range expenses` loops with `break`).
\* Bug variant: the scan never looks at the first element.
Scan_skip(expenses, id, i) ==
  LET hits == {k \in 2..Len(expenses) : expenses[k].ID = id}
  IN IF hits = {} THEN 0 ELSE CHOOSE k \in hits : \A h \in hits : k <= h

RECURSIVE Scan(_, _, _)
Scan(expenses, id, i) ==
  IF i > Len(expenses) THEN 0
  ELSE IF expenses[i].ID = id THEN i
  ELSE Scan(expenses, id, i + 1)

(* ------------------------ updateExpenseHandler ------------------------- *)
\* Bug variant: the update also refreshes CreatedAt.
Updated_created(expenses, i, body, t) ==
  [expenses EXCEPT ![i].Description = body.description,
                   ![i].Amount = body.amount,
                   ![i].CreatedAt = t,
                   ![i].UpdatedAt = t]

\* Bug variant: UpdatedAt is taken from the decoded body, which has none.
Updated_body(expenses, i, body, t) ==
  [expenses EXCEPT ![i].Description = body.description,
                   ![i].Amount = body.amount,
                   ![i].UpdatedAt = ZeroTime]

\* expenses[i].Description, .Amount and .UpdatedAt are overwritten in place.
Updated(expenses, i, body, t) ==
  [expenses EXCEPT ![i].Description = body.description,
                   ![i].Amount = body.amount,
                   ![i].UpdatedAt = t]

UpdLoad(p, id, body) ==
  /\ pc[p] = "idle"
  /\ started < MaxRequests
  /\ started' = started + 1
  /\ op' = [op EXCEPT ![p] = [kind |-> "update", id |-> id,
                              description |-> body.description,
                              amount |-> body.amount]]
  /\ pre' = [pre EXCEPT ![p] = file]
  /\ loads' = [loads EXCEPT ![p] = @ + 1]
  /\ \E r \in loadExpenses(file) :
       LET i == Scan(r.expenses, id, 1) IN
       IF r.err
       THEN /\ pc' = [pc EXCEPT ![p] = "done"]
            /\ resp' = [resp EXCEPT ![p] = Status(500)]
            /\ work' = work
       ELSE IF i = 0
       THEN /\ pc' = [pc EXCEPT ![p] = "done"]
            /\ resp' = [resp EXCEPT ![p] = Status(404)]
            /\ work' = [work EXCEPT ![p] = r.expenses]
       ELSE /\ pc' = [pc EXCEPT ![p] = "save"]
            /\ resp' = resp
            /\ work' = [work EXCEPT ![p] =
                 Updated(r.expenses, i, body, Time(now, TRUE))]
  /\ UNCHANGED <<file, now, stepped, expense, saves, lastSaver, log, origin>>

(* ------------------------ deleteExpenseHandler ------------------------- *)
\* append(expenses[:i], expenses[i+1:]...) for the 1-based index i
\* Bug variant: the slice is cut at the match, dropping what follows it.
RemoveAt_cut(expenses, i) == SubSeq(expenses, 1, i - 1)

RemoveAt(expenses, i) ==
  SubSeq(expenses, 1, i - 1) \o SubSeq(expenses, i + 1, Len(expenses))

DelLoad(p, id) ==
  /\ pc[p] = "idle"
  /\ started < MaxRequests
  /\ started' = started + 1
  /\ op' = [op EXCEPT ![p] = [NoOp EXCEPT !.kind = "delete", !.id = id]]
  /\ pre' = [pre EXCEPT ![p] = file]
  /\ loads' = [loads EXCEPT ![p] = @ + 1]
  /\ \E r \in loadExpenses(file) :
       LET i == Scan(r.expenses, id, 1) IN
       IF r.err
       THEN /\ pc' = [pc EXCEPT ![p] = "done"]
            /\ resp' = [resp EXCEPT ![p] = Status(500)]
            /\ work' = work
       ELSE IF i = 0
       THEN /\ pc' = [pc EXCEPT ![p] = "done"]
            /\ resp' = [resp EXCEPT ![p] = Status(404)]
            /\ work' = [work EXCEPT ![p] = r.expenses]
       ELSE /\ pc' = [pc EXCEPT ![p] = "save"]
            /\ resp' = resp
            /\ work' = [work EXCEPT ![p] = RemoveAt(r.expenses, i)]
  /\ UNCHANGED <<file, now, stepped, expense, saves, lastSaver, log, origin>>

(* ------------------------ listExpensesHandler -------------------------- *)
List(p) ==
  /\ pc[p] = "idle"
  /\ started < MaxRequests
  /\ started' = started + 1
  /\ op' = [op EXCEPT ![p] = [NoOp EXCEPT !.kind = "list"]]
  /\ pre' = [pre EXCEPT ![p] = file]
  /\ loads' = [loads EXCEPT ![p] = @ + 1]
  /\ \E r \in loadExpenses(file) :
       IF r.err
       THEN /\ resp' = [resp EXCEPT ![p] = Status(500)]
            /\ work' = work
       ELSE /\ resp' = [resp EXCEPT ![p] =
                 [NoResp EXCEPT !.status = 200, !.expenses = Marshal(r.expenses)]]
            /\ work' = [work EXCEPT ![p] = r.expenses]
  /\ pc' = [pc EXCEPT ![p] = "done"]
  /\ UNCHANGED <<file, now, stepped, expense, saves, lastSaver, log, origin>>

(* ------------------------ summaryExpensesHandler ----------------------- *)
\* var totalSum int; for ... { totalSum += expense.Amount }
\* Bug variant: `totalSum = expense.Amount` instead of `+=`.
TotalLoop_assign(expenses, i, totalSum) ==
  IF expenses = <<>> THEN totalSum ELSE expenses[Len(expenses)].Amount

RECURSIVE TotalLoop(_, _, _)
TotalLoop(expenses, i, totalSum) ==
  IF i > Len(expenses) THEN totalSum
  ELSE TotalLoop(expenses, i + 1, Wrap(totalSum + expenses[i].Amount))

Summary(p) ==
  /\ pc[p] = "idle"
  /\ started < MaxRequests
  /\ started' = started + 1
  /\ op' = [op EXCEPT ![p] = [NoOp EXCEPT !.kind = "summary"]]
  /\ pre' = [pre EXCEPT ![p] = file]
  /\ loads' = [loads EXCEPT ![p] = @ + 1]
  /\ \E r \in loadExpenses(file) :
       IF r.err
       THEN /\ resp' = [resp EXCEPT ![p] = Status(500)]
            /\ work' = work
       ELSE /\ resp' = [resp EXCEPT ![p] =
                 [NoResp EXCEPT !.status = 200,
                                !.total = TotalLoop(r.expenses, 1, 0)]]
            /\ work' = [work EXCEPT ![p] = r.expenses]
  /\ pc' = [pc EXCEPT ![p] = "done"]
  /\ UNCHANGED <<file, now, stepped, expense, saves, lastSaver, log, origin>>

(* ------------------------ environment ---------------------------------- *)
\* The handler returns; its goroutine and locals are gone.
Return(p) ==
  /\ pc[p] = "done"
  /\ pc' = [pc EXCEPT ![p] = "idle"]
  /\ op' = [op EXCEPT ![p] = NoOp]
  /\ pre' = [pre EXCEPT ![p] = Absent]
  /\ work' = [work EXCEPT ![p] = <<>>]
  /\ expense' = [expense EXCEPT ![p] = NoExpense]
  /\ resp' = [resp EXCEPT ![p] = NoResp]
  /\ saves' = [saves EXCEPT ![p] = 0]
  /\ loads' = [loads EXCEPT ![p] = 0]
  /\ lastSaver' = IF lastSaver = p THEN "none" ELSE lastSaver
  /\ UNCHANGED <<file, now, stepped, log, started, origin>>

\* The server process dies: every request in flight is abandoned where it
\* stands; the file keeps whatever it holds.
Crash ==
  /\ \E p \in Procs : pc[p] \notin {"idle", "done"}
  /\ pc' = [p \in Procs |-> "idle"]
  /\ op' = [p \in Procs |-> NoOp]
  /\ pre' = [p \in Procs |-> Absent]
  /\ work' = [p \in Procs |-> <<>>]
  /\ expense' = [p \in Procs |-> NoExpense]
  /\ resp' = [p \in Procs |-> NoResp]
  /\ saves' = [p \in Procs |-> 0]
  /\ loads' = [p \in Procs |-> 0]
  /\ lastSaver' = "none"
  /\ UNCHANGED <<file, now, stepped, log, started, origin>>

\* The wall clock advances.
Tick ==
  /\ now < MaxTime
  /\ now' = now + 1
  /\ UNCHANGED <<file, stepped, pc, op, pre, work, expense, resp, saves, loads,
               lastSaver, log, started, origin>>

\* The wall clock is set back, once (time.Now reads the system wall clock,
\* and only the wall reading is stored in the file).
StepBack ==
  /\ ~stepped
  /\ now > 0
  /\ now' \in 0..(now - 1)
  /\ stepped' = TRUE
  /\ UNCHANGED <<file, pc, op, pre, work, expense, resp, saves, loads, lastSaver,
               log, started, origin>>

(* ------------------------ specification -------------------------------- *)
InitWith(files) ==
  /\ file \in files
  /\ origin = file
  /\ now = 0
  /\ stepped = FALSE
  /\ pc = [p \in Procs |-> "idle"]
  /\ op = [p \in Procs |-> NoOp]
  /\ pre = [p \in Procs |-> Absent]
  /\ work = [p \in Procs |-> <<>>]
  /\ expense = [p \in Procs |-> NoExpense]
  /\ resp = [p \in Procs |-> NoResp]
  /\ saves = [p \in Procs |-> 0]
  /\ loads = [p \in Procs |-> 0]
  /\ lastSaver = "none"
  /\ started = 0
  /\ log = <<>>

\* The server starts with no document or with an empty one.
Init == InitWith({Absent, Json(<<>>)})

\* The five handlers as run by goroutine p, step by step.
Handler(p) ==
  \/ \E body \in Bodies : AddLoad(p, body)
  \/ AddStamp(p)
  \/ \E id \in PathIds, body \in Bodies : UpdLoad(p, id, body)
  \/ \E id \in PathIds : DelLoad(p, id)
  \/ List(p)
  \/ Summary(p)
  \/ SaveOpen(p)
  \/ SaveWrite(p)
  \/ Return(p)

\* Concurrent requests; the clock stands still, so every timestamp is 0.
Next ==
  \/ \E p \in Procs : Handler(p)
  \/ Crash

Spec == Init /\ [][Next]_vars

\* One request at a time, with a clock that advances.
NextSeq ==
  \/ Handler("h1")
  \/ Crash
  \/ Tick

SpecSeq == Init /\ [][NextSeq]_vars

\* A handler that is serving a request goes on running: the statements of a
\* handler follow each other without a wait, and every call it makes (the
\* clock, the file system) returns.
Proceed(p) == AddStamp(p) \/ SaveOpen(p) \/ SaveWrite(p)

SpecSeqFair == SpecSeq /\ WF_vars(Proceed("h1"))

\* Creates (of bodies that carry no id) and Updates, one request at a time,
\* with a wall clock that advances and may be set back.
PlainBodies == {b \in Bodies : b.id = 0}

NextSkew ==
  \/ \E body \in PlainBodies : AddLoad("h1", body)
  \/ AddStamp("h1")
  \/ \E id \in PathIds, body \in Bodies : UpdLoad("h1", id, body)
  \/ SaveOpen("h1")
  \/ SaveWrite("h1")
  \/ Return("h1")
  \/ Tick
  \/ StepBack

SpecSkew == Init /\ [][NextSkew]_vars

\* Only Create calls, one after the other, starting from any well-formed
\* document: whatever ids a JSON file can hold, duplicates included.
SampleIds == {MinInt, 0, 1, MaxInt}
Stored(id) ==
  [id |-> id, description |-> "coffee", amount |-> 1,
   created_at |-> 0, updated_at |-> 0]
AnyDocs ==
  {<<>>} \cup {<<Stored(a)>> : a \in SampleIds}
         \cup {<<Stored(a), Stored(b)>> : a \in SampleIds, b \in SampleIds}

InitCreates == InitWith({Json(doc) : doc \in AnyDocs})

NextCreates ==
  \/ \E body \in Bodies : AddLoad("h1", body)
  \/ AddStamp("h1")
  \/ SaveOpen("h1")
  \/ SaveWrite("h1")
  \/ Return("h1")

SpecCreates == InitCreates /\ [][NextCreates]_vars

\* Updates served one at a time on whatever document the file may hold,
\* documents with a repeated id included.
NextUpdates ==
  \/ \E id \in PathIds, body \in Bodies : UpdLoad("h1", id, body)
  \/ SaveOpen("h1")
  \/ SaveWrite("h1")
  \/ Return("h1")
  \/ Tick

SpecUpdates == InitCreates /\ [][NextUpdates]_vars

\* Creates, Updates and Deletes of two handlers interleaved while the wall
\* clock advances and is never set back.  The ids in the paths are those of
\* the first two records created.
ClockIds == {id \in PathIds : id <= 2}

NextClock ==
  \/ \E p \in Procs, body \in PlainBodies : AddLoad(p, body)
  \/ \E p \in Procs : AddStamp(p)
  \/ \E p \in Procs, id \in ClockIds, body \in PlainBodies : UpdLoad(p, id, body)
  \/ \E p \in Procs, id \in ClockIds : DelLoad(p, id)
  \/ \E p \in Procs : SaveOpen(p)
  \/ \E p \in Procs : SaveWrite(p)
  \/ \E p \in Procs : Return(p)
  \/ Tick

\* The server's first start: expense.json does not exist yet.
InitClock == InitWith({Absent})

SpecClock == InitClock /\ [][NextClock]_vars

(* ============================ claims ================================== *)
Ids(doc) == {doc[i].id : i \in 1..Len(doc)}
Distinct(doc) ==
  \A i, j \in 1..Len(doc) : i # j => doc[i].id # doc[j].id

\* C1: from an absent or empty document, under every interleaving of the
\* five operations, the ids of the records in the durable collection are
\* pairwise distinct (whenever the file holds a well-formed document).
C1_IdsDistinct == file.kind = "json" => Distinct(file.doc)

\* C1 witness: two records are durable after some Delete has succeeded.
C1_Witness ==
  /\ file.kind = "json"
  /\ Len(file.doc) >= 2
  /\ \E i \in 1..Len(log) : log[i].kind = "delete"

\* C2: in every sequence of Create calls, from any collection, the ids
\* returned are pairwise distinct and differ from every id the collection
\* held at the start.
C2_CreatedIdsUnique ==
  /\ \A i, j \in 1..Len(log) : i # j => log[i].id # log[j].id
  /\ \A i \in 1..Len(log) : log[i].id \notin Ids(origin.doc)

MaxOf(S) == CHOOSE m \in S : \A x \in S : x <= m

\* Handler p serves a Create and has passed line 84 (the id is assigned).
AddAssigned(p) ==
  /\ op[p].kind = "add"
  /\ \/ pc[p] \in {"stamp", "save", "write"}
     \/ pc[p] = "done" /\ saves[p] > 0

\* C3: Create assigns 1 + the largest id of the loaded collection (1 when it
\* is empty); so after Create (id 1), Create (id 2), Delete(2) the next
\* Create returns 2, and the id of a deleted record is not assigned again
\* while the loaded collection holds a larger id.
C3_IdIsMaxPlusOne ==
  /\ \A p \in Procs :
       AddAssigned(p) =>
         /\ expense[p].ID =
              IF pre[p].doc = <<>> THEN 1 ELSE 1 + MaxOf(Ids(pre[p].doc))
         /\ \A i \in 1..Len(log) :
              ( log[i].kind = "delete" /\
                (\E k \in Ids(pre[p].doc) : k > log[i].id) )
              => expense[p].ID # log[i].id
  /\ ( /\ Len(log) >= 4
       /\ log[1] = [kind |-> "add", id |-> 1]
       /\ log[2] = [kind |-> "add", id |-> 2]
       /\ log[3] = [kind |-> "delete", id |-> 2]
       /\ log[4].kind = "add" )
     => log[4].id = 2

\* C3 witness: Create, Create, Delete(2), Create have succeeded in this
\* order and the last Create returned id 2 again.
C3_Witness ==
  log = << [kind |-> "add", id |-> 1], [kind |-> "add", id |-> 2],
           [kind |-> "delete", id |-> 2], [kind |-> "add", id |-> 2] >>

\* Handler p has answered a Create, Update or Delete with success.
Succeeded(p) ==
  /\ pc[p] = "done"
  /\ op[p].kind \in {"add", "update", "delete"}
  /\ resp[p].status \in {200, 201, 204}

\* The document that results from the one request of handler q applied to
\* the document q loaded, stated on the request and its response.
OnlyEffectOf(q) ==
  CASE op[q].kind = "add" -> pre[q].doc \o resp[q].expense
    [] op[q].kind = "update" -> resp[q].expenses
    [] OTHER -> SelectSeq(pre[q].doc, LAMBDA r : r.id # op[q].id)

\* Handlers p and q loaded the same document, both succeeded, q saved last.
Raced(p, q) ==
  /\ p # q
  /\ Succeeded(p) /\ Succeeded(q)
  /\ pre[p] = pre[q]
  /\ lastSaver = q

\* C4: no mutual exclusion: when two mutating requests loaded the same
\* document and both reported success, the document the later save leaves
\* holds the later saver's effect on the loaded document and nothing of the
\* other's; two such Creates return the same id and one record is durable.
C4_LastSaveWins ==
  \A p, q \in Procs :
    Raced(p, q) /\ file.kind = "json" =>
      /\ file.doc = OnlyEffectOf(q)
      /\ op[q].kind = "update" =>
           /\ Len(file.doc) = Len(pre[q].doc)
           /\ \A i \in 1..Len(file.doc) :
                file.doc[i].id # op[q].id => file.doc[i] = pre[q].doc[i]
      /\ op[p].kind = "add" /\ op[q].kind = "add" =>
           /\ resp[p].expense[1].id = resp[q].expense[1].id
           /\ Len(file.doc) = Len(pre[q].doc) + 1

\* C4 witness: two overlapping Creates loaded the same document, both
\* answered 201 with the same id, and the file holds one new record.
C4_Witness ==
  \E p, q \in Procs :
    /\ Raced(p, q)
    /\ op[p].kind = "add" /\ op[q].kind = "add"
    /\ resp[p].expense[1].id = resp[q].expense[1].id
    /\ resp[p].expense[1] # resp[q].expense[1]
    /\ file = Json(pre[q].doc \o resp[q].expense)

\* Handler p has answered request kind k with status st.
Answered(p, k, st) ==
  pc[p] = "done" /\ op[p].kind = k /\ resp[p].status = st

\* C5: after a successful Delete(id) the durable collection has no record
\* with that id, one record less, and every other record of the collection
\* it had before, unchanged and in the same order.
C5_DeleteExact ==
  \A p \in Procs :
    Answered(p, "delete", 204) =>
      /\ pre[p].kind = "json" /\ file.kind = "json"
      /\ Len(file.doc) = Len(pre[p].doc) - 1
      /\ \A i \in 1..Len(file.doc) : file.doc[i].id # op[p].id
      /\ \E k \in 1..Len(pre[p].doc) :
           /\ pre[p].doc[k].id = op[p].id
           /\ \A i \in 1..Len(file.doc) :
                file.doc[i] = IF i < k THEN pre[p].doc[i] ELSE pre[p].doc[i + 1]

\* C5 witness: a Delete removed the first of at least two records.
C5_Witness ==
  \E p \in Procs :
    /\ Answered(p, "delete", 204)
    /\ Len(pre[p].doc) >= 2
    /\ pre[p].doc[1].id = op[p].id
    /\ file.kind = "json" /\ Len(file.doc) >= 1

\* Handler p takes the step in which its Update or Delete request arrives
\* and is served up to the end of the scan.
Scanned(p) ==
  pc[p] = "idle" /\ pc'[p] # "idle" /\ op'[p].kind \in {"update", "delete"}

\* C6: an Update or Delete whose id is absent from the loaded collection
\* answers 404, makes no save and leaves the file as it is (and 404 is
\* answered in no other case).
C6_NotFoundHarmless ==
  [][ \A p \in Procs :
        /\ Scanned(p) /\ resp'[p].status # 500 =>
             /\ (op'[p].id \notin Ids(file.doc))
                  <=> (pc'[p] = "done" /\ resp'[p].status = 404)
             /\ resp'[p].status = 404 => file' = file /\ saves'[p] = 0
        /\ resp[p].status = 404 =>
             pc[p] = "done" /\ saves[p] = 0 /\ op[p].kind \in {"update", "delete"}
    ]_vars

\* C6 witness: a request for an id that a non-empty collection lacks was
\* answered 404 and the file is what it was.
C6_Witness ==
  \E p \in Procs :
    /\ pc[p] = "done" /\ resp[p].status = 404
    /\ file = pre[p] /\ file.kind = "json" /\ Len(file.doc) >= 1
    /\ saves[p] = 0

\* The index of the first record of doc with the given id (0 for none).
FirstWith(doc, id) ==
  LET hits == {k \in 1..Len(doc) : doc[k].id = id}
  IN IF hits = {} THEN 0 ELSE CHOOSE k \in hits : \A h \in hits : k <= h

\* Handler p's successful Update kept id and created_at of the matched
\* record and stored the description and amount of the request.
UpdateKeepsIdentity(p) ==
  LET k == FirstWith(pre[p].doc, op[p].id) IN
  /\ pre[p].kind = "json" /\ file.kind = "json"
  /\ k # 0 /\ k <= Len(file.doc)
  /\ file.doc[k].id = pre[p].doc[k].id
  /\ file.doc[k].created_at = pre[p].doc[k].created_at
  /\ file.doc[k].description = op[p].description
  /\ file.doc[k].amount = op[p].amount

UpdatedAtGrows(p) ==
  LET k == FirstWith(pre[p].doc, op[p].id) IN
  file.doc[k].updated_at >= pre[p].doc[k].updated_at

\* C7 as stated: a successful Update leaves id and created_at of the matched
\* record, stores description and amount, and sets updated_at to a value
\* not below the previous updated_at.
C7_UpdateAsClaimed ==
  \A p \in Procs :
    Answered(p, "update", 200) => UpdateKeepsIdentity(p) /\ UpdatedAtGrows(p)

\* C7 amended: the same, with updated_at not below the previous one as long
\* as the wall clock has not been set back.
C7_UpdateFields ==
  \A p \in Procs :
    Answered(p, "update", 200) =>
      /\ UpdateKeepsIdentity(p)
      /\ ~stepped => UpdatedAtGrows(p)

\* C7 witness: an Update at a later clock reading changed description,
\* amount and updated_at of a record.
C7_Witness ==
  \E p \in Procs :
    /\ Answered(p, "update", 200)
    /\ ~stepped
    /\ LET k == FirstWith(pre[p].doc, op[p].id) IN
         /\ file.doc[k].updated_at > pre[p].doc[k].updated_at
         /\ file.doc[k].description # pre[p].doc[k].description
         /\ file.doc[k].amount # pre[p].doc[k].amount

\* C8: Create gives created_at and updated_at of the new record the same
\* value, appends the record, saves, and returns the record it stored.
C8_CreateStamps ==
  \A p \in Procs :
    Answered(p, "add", 201) =>
      /\ file.kind = "json"
      /\ file.doc = pre[p].doc \o resp[p].expense
      /\ resp[p].expense[1].created_at = resp[p].expense[1].updated_at

RECURSIVE SumAmounts(_)
SumAmounts(doc) ==
  IF doc = <<>> THEN 0 ELSE doc[1].amount + SumAmounts(Tail(doc))

\* Handlers p and q answered a Summarize and a List of the same document.
SameDocument(p, q) ==
  /\ Answered(p, "summary", 200)
  /\ Answered(q, "list", 200)
  /\ pre[p] = pre[q]

\* C9 as stated: Summarize returns the arithmetic sum of amount over the
\* records List returns for the same document, 0 for none.
C9_ArithmeticSum ==
  \A p, q \in Procs :
    SameDocument(p, q) => resp[p].total = SumAmounts(resp[q].expenses)

\* C9 amended: Summarize returns that sum reduced to the int range by
\* two's-complement wrap-around (the arithmetic sum whenever it fits), and
\* 0 for an empty collection or an absent document.
C9_WrappedSum ==
  /\ \A p, q \in Procs :
       SameDocument(p, q) =>
         /\ resp[p].total = Wrap(SumAmounts(resp[q].expenses))
         /\ SumAmounts(resp[q].expenses) \in MinInt..MaxInt =>
              resp[p].total = SumAmounts(resp[q].expenses)
  /\ \A p \in Procs :
       Answered(p, "summary", 200) /\ pre[p].doc = <<>> => resp[p].total = 0

\* C9 witness: Summarize and List answered for the same document of two
\* or more records whose amounts add up within the int range.
C9_Witness ==
  \E p, q \in Procs :
    /\ SameDocument(p, q)
    /\ Len(resp[q].expenses) >= 2
    /\ resp[p].total = SumAmounts(resp[q].expenses)
    /\ resp[p].total # resp[q].expenses[Len(resp[q].expenses)].amount

\* C10: no operation partially applies: a Create, Update or Delete that
\* succeeds leaves the file equal to its mutated collection, and one that
\* fails, or is abandoned between load and save, leaves the file as it was
\* when the operation started.
C10_AllOrNothing ==
  \A p \in Procs :
    op[p].kind \in {"add", "update", "delete"} =>
      /\ Succeeded(p) => file = Json(Marshal(work[p]))
      /\ pc[p] = "done" /\ ~Succeeded(p) => file = pre[p]
      /\ pc[p] \in {"stamp", "save"} => file = pre[p]


\* Handler p takes the step in which its List or Summarize request arrives
\* and is served.
Reads(p) ==
  pc[p] = "idle" /\ pc'[p] # "idle" /\ op'[p].kind \in {"list", "summary"}

\* C11: List and Summarize never change the file (they make no save and an
\* absent file stays absent), and List answers the loaded collection as it
\* is stored, in stored order.
C11_ReadsLeaveFile ==
  [][ \A p \in Procs :
        /\ Reads(p) =>
             /\ file' = file
             /\ saves'[p] = 0
             /\ pc'[p] = "done"
             /\ op'[p].kind = "list" /\ resp'[p].status = 200 =>
                  resp'[p].expenses = file.doc
        /\ op[p].kind \in {"list", "summary"} =>
             /\ pc[p] = "done" /\ saves[p] = 0
             /\ pc'[p] # pc[p] => file' = file
    ]_vars

\* C11 witness: a List was answered with a document of two records, the
\* file's own, and the file is what it was.
C11_Witness ==
  \E p \in Procs :
    /\ Answered(p, "list", 200)
    /\ file = pre[p] /\ file.kind = "json"
    /\ Len(file.doc) >= 2 /\ resp[p].expenses = file.doc
    /\ saves[p] = 0


\* C12: the id of a record Create stores is the store's own and positive:
\* it is the generated id whatever id the request body carried, and the
\* generated id is at least 1 for every loaded collection, one that holds
\* only non-positive ids included.
C12_IdAssignedPositive ==
  \A p \in Procs :
    AddAssigned(p) /\ pre[p].kind = "json" =>
      /\ expense[p].ID = generateUniqueID(Unmarshal(pre[p].doc))
      /\ expense[p].ID >= 1


\* Collections a and b hold the same records in the same order with the
\* same field values, the timestamps compared as instants.
SameContent(a, b) ==
  /\ Len(a) = Len(b)
  /\ \A i \in 1..Len(a) :
       /\ a[i].ID = b[i].ID
       /\ a[i].Description = b[i].Description
       /\ a[i].Amount = b[i].Amount
       /\ a[i].CreatedAt.wall = b[i].CreatedAt.wall
       /\ a[i].UpdatedAt.wall = b[i].UpdatedAt.wall

Arrives(p) == pc[p] = "idle" /\ pc'[p] # "idle"

\* C14: with no file, loadExpenses returns an empty collection and no
\* error: List answers the empty list, Summarize 0, Update and Delete 404
\* and the file stays absent; Create assigns id 1 and, when it answers 201,
\* the file is a document of that one record.
C14_AbsentIsEmpty ==
  [][ \A p \in Procs :
        /\ Arrives(p) /\ file = Absent =>
             /\ resp'[p].status # 500
             /\ file' = Absent /\ saves'[p] = 0
             /\ op'[p].kind = "list" =>
                  pc'[p] = "done" /\ resp'[p].status = 200
                  /\ resp'[p].expenses = <<>>
             /\ op'[p].kind = "summary" =>
                  pc'[p] = "done" /\ resp'[p].status = 200
                  /\ resp'[p].total = 0
             /\ op'[p].kind \in {"update", "delete"} =>
                  pc'[p] = "done" /\ resp'[p].status = 404
             /\ op'[p].kind = "add" =>
                  pc'[p] = "stamp" /\ work'[p] = <<>> /\ expense'[p].ID = 1
        /\ pc[p] = "write" /\ op[p].kind = "add" /\ pre[p] = Absent
           /\ resp'[p].status = 201 =>
             /\ file'.kind = "json" /\ Len(file'.doc) = 1
             /\ file'.doc[1].id = 1
             /\ file'.doc = resp'[p].expense
    ]_vars

\* C14 witness: a Create that found no file answered 201 and the file holds
\* its one record, with id 1.
C14_Witness ==
  \E p \in Procs :
    /\ Answered(p, "add", 201) /\ pre[p] = Absent
    /\ file = Json(resp[p].expense)
    /\ Len(file.doc) = 1 /\ file.doc[1].id = 1


\* C15: a successful Update(id, ...) changes only the first record whose id
\* is id: every other record keeps all its fields, the collection keeps its
\* length and order, and the collection in the response is the saved one.
C15_UpdateOnlyFirst ==
  \A p \in Procs :
    Answered(p, "update", 200) =>
      LET k == FirstWith(pre[p].doc, op[p].id) IN
      /\ k > 0
      /\ file.kind = "json"
      /\ Len(file.doc) = Len(pre[p].doc)
      /\ \A i \in 1..Len(file.doc) : i # k => file.doc[i] = pre[p].doc[i]
      /\ file.doc[k].id = op[p].id
      /\ resp[p].expenses = file.doc

\* C15 witness: an Update succeeded on a document that holds its id twice;
\* the first of the two records changed, the second did not.
C15_Witness ==
  \E p \in Procs :
    /\ Answered(p, "update", 200)
    /\ file.kind = "json" /\ Len(file.doc) = 2
    /\ pre[p].doc[1].id = op[p].id /\ pre[p].doc[2].id = op[p].id
    /\ file.doc[1] # pre[p].doc[1]
    /\ file.doc[2] = pre[p].doc[2]
    /\ resp[p].expenses = file.doc


\* The place of a handler in its one pass from the request to the response.
Rank(l) ==
  CASE l = "idle" -> 0
    [] l = "stamp" -> 1
    [] l = "save" -> 2
    [] l = "write" -> 3
    [] OTHER -> 4

\* Handler p writes its response in this step.
Responds(p) == resp[p].status = 0 /\ resp'[p].status # 0

\* C16: every request ends after exactly one loadExpenses and at most one
\* saveExpenses, nothing is tried again; saveExpenses is called only after
\* loadExpenses succeeded, only by Create, Update and Delete, and by Update
\* and Delete only when a record matched; the response is written only
\* when that call of saveExpenses has ended.
C16_OneLoadOneSave ==
  /\ [][ \A p \in Procs :
           /\ loads'[p] <= 1 /\ saves'[p] <= 1
           /\ pc'[p] # "idle" => loads'[p] = 1
           /\ loads'[p] > loads[p] => pc[p] = "idle"
           /\ saves'[p] > saves[p] =>
                /\ loads[p] = 1 /\ resp[p].status = 0
                /\ op[p].kind \in {"add", "update", "delete"}
                /\ op[p].kind \in {"update", "delete"} =>
                     op[p].id \in Ids(pre[p].doc)
           /\ Responds(p) =>
                /\ pc'[p] = "done"
                /\ saves'[p] = 1 => pc[p] \in {"save", "write"}
                /\ op'[p].kind \in {"add", "update", "delete"}
                   /\ resp'[p].status \in {200, 201, 204} =>
                     pc[p] = "write" /\ saves[p] = 1
           /\ pc'[p] = "done" => resp'[p].status # 0
           /\ pc'[p] # pc[p] =>
                pc'[p] = "idle" \/ Rank(pc'[p]) > Rank(pc[p])
       ]_vars
  /\ \A p \in Procs :
       pc[p] \notin {"idle", "done"} ~> pc[p] \in {"idle", "done"}

\* C16 witness: an Update was answered 200 after one load and one save.
C16_Witness ==
  \E p \in Procs :
    /\ Answered(p, "update", 200)
    /\ loads[p] = 1 /\ saves[p] = 1


\* The ids of doc grow strictly from each record to the next.
Increasing(doc) == \A i \in 1..(Len(doc) - 1) : doc[i].id < doc[i + 1].id

\* C17: from an absent or empty file on, under every interleaving of
\* requests, the ids of the stored collection grow strictly in stored
\* order, so the id Create assigns is the id of the last loaded record
\* plus 1.
C17_IdsIncreasing ==
  /\ file.kind = "json" => Increasing(file.doc)
  /\ \A p \in Procs :
       AddAssigned(p) /\ Len(pre[p].doc) > 0 =>
         expense[p].ID = pre[p].doc[Len(pre[p].doc)].id + 1

\* C17 witness: a Create loaded a document whose first record is gone, was
\* given the id after the last one, and the file holds its record last.
C17_Witness ==
  \E p \in Procs :
    /\ AddAssigned(p) /\ Len(pre[p].doc) = 1
    /\ pre[p].doc[1].id > 1
    /\ expense[p].ID = pre[p].doc[1].id + 1
    /\ file.kind = "json" /\ Len(file.doc) = 2 /\ Increasing(file.doc)
    /\ file.doc[2].id = expense[p].ID


\* C18: while the clock is never set back, every record of the stored
\* collection has created_at <= updated_at, under every interleaving of
\* Creates, Updates and Deletes.
C18_CreatedBeforeUpdated ==
  file.kind = "json" =>
    \A i \in 1..Len(file.doc) : file.doc[i].created_at <= file.doc[i].updated_at

\* C18 witness: two requests overlapped, and the file holds a record whose
\* updated_at is later than its created_at.
C18_Witness ==
  /\ file.kind = "json"
  /\ \E i \in 1..Len(file.doc) : file.doc[i].created_at < file.doc[i].updated_at
  /\ \A p \in Procs : Succeeded(p)

====
